---- MODULE Spec2Model ----
(***************************************************************************)
(* Blogicum (blog/views.py, blog/forms.py): the post-visibility filter,    *)
(* the author guards of the update/delete views, comment creation, the     *)
(* paginated listings and the profile views, as a state machine over the   *)
(* database tables (users, categories, posts, comments) and the response   *)
(* of the request handled last.                                            *)
(*                                                                         *)
(* Requests are handled independently and statelessly: a handler reads and *)
(* writes the tables and produces one response.  Every specification below *)
(* starts from a database drawn from a bounded set of table contents and   *)
(* serves one request against it; the clock may advance before the request *)
(* arrives.                                                                *)
(***************************************************************************)
EXTENDS Integers, Sequences, FiniteSets, TLC

VARIABLES now, users, categories, posts, comments, nextPostId, nextCommentId, response

vars == <<now, users, categories, posts, comments, nextPostId, nextCommentId, response>>

db == <<users, categories, posts, comments, nextPostId, nextCommentId>>

----------------------------------------------------------------------------
(* Bounds of the model *)

\* timestamps (timezone.now(), Post.pub_date) range over 0 .. MaxTime
MaxTime == 1

\* posts in the database of the specifications of the post views
MaxPosts == 1

\* posts in the database of the specifications of the listings
MaxListed == 2

\* posts in the database of the pagination specification
MaxPaged == 3

\* comments in the database of the comment specifications
MaxComments == 2

\* comments in the database of the profile specification
MaxCounted == 1

\* page numbers a request may ask for: 1 .. MaxPage
MaxPage == 3

\* Constants.PAGINATION (blog/constants.py), the page size of every listing
PAGINATION == 2

----------------------------------------------------------------------------
(* The values of the tables *)

UserIds == {"u1", "u2"}

\* request.user of a request without a session: AnonymousUser
Anonymous == "AnonymousUser"

Viewers == UserIds \cup {Anonymous}

Usernames == {"ann", "bob", "eve"}

FirstNames == {"A", "B"}

\* UserForm.Meta.fields: username and the name fields (first_name stands for
\* first_name, last_name and email, which the form treats alike)
UserFormData == [username : Usernames, first_name : FirstNames]

InitialUsers == ("u1" :> [username |-> "ann", first_name |-> "A"])
                  @@ ("u2" :> [username |-> "bob", first_name |-> "A"])

\* Category rows by slug; "c1" is published, "c2" is not
Categories == {"c1", "c2"}

CategoryTable == ("c1" :> [is_published |-> TRUE]) @@ ("c2" :> [is_published |-> FALSE])

\* slugs a request may name: the categories and one slug no category has
Slugs == Categories \cup {"zz"}

\* Post.category is nullable
NoCategory == "None"

CategoryRefs == Categories \cup {NoCategory}

Times == 0 .. MaxTime

\* PostForm: every field of Post but author
PostFormData == [is_published : BOOLEAN, pub_date : Times, category : CategoryRefs]

PostRows == [author : UserIds, is_published : BOOLEAN, pub_date : Times,
             category : CategoryRefs]

\* CommentForm.Meta.fields = ('text',); the empty text fails validation
Texts == {"", "hi", "yo"}

Methods == {"GET", "POST"}

Pages == 1 .. MaxPage

Max(S) == IF S = {} THEN 0 ELSE CHOOSE x \in S : \A y \in S : y <= x

Min2(a, b) == IF a <= b THEN a ELSE b

----------------------------------------------------------------------------
(* Responses *)

Location(name, pk, username) == [name |-> name, pk |-> pk, username |-> username]

NoLocation == Location("", 0, "")

\* the request a handler serves, with the response fields still empty
Request(view, method, user) ==
  [view |-> view, method |-> method, user |-> user, pk |-> 0, comment_pk |-> 0,
   name |-> "", page |-> 0, data |-> "", status |-> 0, location |-> NoLocation,
   number |-> 0,
   object_list |-> <<>>, page_obj |-> <<>>, comment_count |-> <<>>]

NoResponse == Request("", "", Anonymous)

Render(req) == [req EXCEPT !.status = 200]

\* Http404: the not-found page, which shows nothing of the queryset
NotFound(req) == [req EXCEPT !.status = 404, !.object_list = <<>>, !.comment_count = <<>>]

\* an exception that is not Http404 (handler500)
ServerError(req) == [req EXCEPT !.status = 500, !.object_list = <<>>, !.comment_count = <<>>]

Redirect(req, loc) == [req EXCEPT !.status = 302, !.location = loc]

\* LoginRequiredMixin.handle_no_permission: redirect to the login page
RedirectToLogin(req) == Redirect(req, Location("login", 0, ""))

is_authenticated(user) == user \in UserIds

----------------------------------------------------------------------------
(* Querysets *)

\* Count('comments') of one post
comment_count(p) == Cardinality({c \in DOMAIN comments : comments[c].post = p})

\* category__is_published=True: the join drops the posts without a category
category_is_published(p) ==
  /\ posts[p].category \in DOMAIN categories
  /\ categories[posts[p].category].is_published

get_posts_unfiltered_category ==
  {p \in DOMAIN posts : posts[p].is_published /\ posts[p].pub_date <= now}

\* FilterMixin.get_posts, before the ordering
get_posts ==
  {p \in DOMAIN posts : /\ category_is_published(p)
                        /\ posts[p].is_published
                        /\ posts[p].pub_date <= now}

Permutations_of(S) ==
  {s \in [1 .. Cardinality(S) -> S] : \A i, j \in DOMAIN s : i # j => s[i] # s[j]}

\* order_by('-pub_date'): the orders the database may return; posts of equal
\* pub_date come in any order
order_by_pub_date(S) ==
  {s \in Permutations_of(S) :
     \A i, j \in DOMAIN s : i < j => posts[s[i]].pub_date >= posts[s[j]].pub_date}

\* annotate(comment_count=Count('comments'))
annotate(req, ol) ==
  [req EXCEPT !.object_list = ol,
              !.comment_count = [i \in DOMAIN ol |-> comment_count(ol[i])]]

ProfileView_get_queryset_filtered(viewer, author) ==
  {p \in get_posts : posts[p].author = author}

\* ProfileView.get_queryset, before the ordering
ProfileView_get_queryset(viewer, author) ==
  IF viewer = author
    THEN {p \in DOMAIN posts : posts[p].author = author}
    ELSE {p \in get_posts : posts[p].author = author}

\* CategoryPostListView.get_queryset, before the ordering
CategoryPostListView_get_queryset(slug) ==
  {p \in DOMAIN posts : /\ posts[p].category = slug
                        /\ posts[p].is_published
                        /\ posts[p].pub_date <= now}

----------------------------------------------------------------------------
(* Pagination (django.core.paginator, as the views call it) *)

\* Paginator.num_pages with allow_empty_first_page
num_pages(count) ==
  IF count = 0 THEN 1 ELSE (count + PAGINATION - 1) \div PAGINATION

\* Paginator.page(number).object_list
page_of(ol, number) ==
  SubSeq(ol, (number - 1) * PAGINATION + 1, Min2(number * PAGINATION, Len(ol)))

serve_page(req, number) ==
  Render([req EXCEPT !.number = number, !.page_obj = page_of(req.object_list, number)])

Paginator_get_page_first(req) ==
  IF req.page \in 1 .. num_pages(Len(req.object_list))
    THEN serve_page(req, req.page)
    ELSE serve_page(req, 1)

\* Paginator.get_page: a page number out of range gives the last page
Paginator_get_page(req) ==
  IF req.page \in 1 .. num_pages(Len(req.object_list))
    THEN serve_page(req, req.page)
    ELSE serve_page(req, num_pages(Len(req.object_list)))

\* ListView with paginate_by (MultipleObjectMixin.paginate_queryset): a page
\* number out of range raises Http404
paginate_queryset(req) ==
  IF req.page \in 1 .. num_pages(Len(req.object_list))
    THEN serve_page(req, req.page)
    ELSE NotFound(req)

----------------------------------------------------------------------------
(* The listings *)

PostListView(viewer, page) ==
  LET req == [Request("index", "GET", viewer) EXCEPT !.page = page]
  IN  /\ \E ol \in order_by_pub_date(get_posts) :
           response' = paginate_queryset(annotate(req, ol))
      /\ UNCHANGED <<now, db>>

CategoryPostListView_category_any(slug) == slug \in DOMAIN categories

\* CategoryPostListView.dispatch: get_object_or_404(Category, slug=...,
\* is_published=True) finds a category
CategoryPostListView_category(slug) ==
  slug \in DOMAIN categories /\ categories[slug].is_published

CategoryPostListView(viewer, slug, page) ==
  LET req == [Request("category", "GET", viewer) EXCEPT !.name = slug, !.page = page]
  IN  /\ IF CategoryPostListView_category(slug)
           THEN \E ol \in order_by_pub_date(CategoryPostListView_get_queryset(slug)) :
                  response' = paginate_queryset([req EXCEPT !.object_list = ol])
           ELSE response' = NotFound(req)
      /\ UNCHANGED <<now, db>>

\* get_object_or_404(User, username=...)
user_by_username(username) == {u \in DOMAIN users : users[u].username = username}

ProfileView(viewer, username, page) ==
  LET req == [Request("profile", "GET", viewer) EXCEPT !.name = username, !.page = page]
  IN  /\ IF user_by_username(username) = {}
           THEN response' = NotFound(req)
           ELSE \E author \in user_by_username(username) :
                \E ol \in order_by_pub_date(ProfileView_get_queryset(viewer, author)) :
                  response' = Paginator_get_page(annotate(req, ol))
      /\ UNCHANGED <<now, db>>

----------------------------------------------------------------------------
(* The post views *)

\* PostDetailView.get_context_data: the test the page is rendered under
\* (the view's get_posts override is never called: get_object reads
\* Post.objects.all()).
\* Python evaluates it left to right and stops at the first operand that
\* decides it; post.category.is_published on a post without a category
\* raises AttributeError.
PostDetailView_outcome(viewer, pk) ==
  IF viewer = posts[pk].author THEN "render"
  ELSE IF ~posts[pk].is_published THEN "not_found"
  ELSE IF ~(posts[pk].pub_date <= now) THEN "not_found"
  ELSE IF posts[pk].category = NoCategory THEN "attribute_error"
  ELSE IF categories[posts[pk].category].is_published THEN "render"
  ELSE "not_found"

PostDetailView(viewer, pk) ==
  LET req == [Request("post_detail", "GET", viewer) EXCEPT !.pk = pk]
  IN  /\ response' =
           IF pk \notin DOMAIN posts THEN NotFound(req)
           ELSE CASE PostDetailView_outcome(viewer, pk) = "render" -> Render(req)
                  [] PostDetailView_outcome(viewer, pk) = "not_found" -> NotFound(req)
                  [] OTHER -> ServerError(req)
      /\ UNCHANGED <<now, db>>

PostCreateView(viewer, method, form) ==
  LET req == Request("post_create", method, viewer)
  IN  IF ~is_authenticated(viewer)
        THEN /\ response' = RedirectToLogin(req)
             /\ UNCHANGED <<now, db>>
      ELSE IF method = "GET"
        THEN /\ response' = Render(req)
             /\ UNCHANGED <<now, db>>
      ELSE /\ posts' = posts @@ (nextPostId :>
                         [author |-> viewer, is_published |-> form.is_published,
                          pub_date |-> form.pub_date, category |-> form.category])
           /\ nextPostId' = nextPostId + 1
           /\ response' = Redirect([req EXCEPT !.pk = nextPostId],
                                   Location("profile", 0, users[viewer].username))
           /\ UNCHANGED <<now, users, categories, comments, nextCommentId>>

PostsMixin_denies_nobody(user, pk) == FALSE

\* PostsMixin.dispatch: post.author != request.user
PostsMixin_denies(user, pk) == posts[pk].author # user

\* LoginRequiredMixin.dispatch, then PostsMixin.dispatch: the response that
\* ends the request before the view runs, or NoResponse when the view runs
PostsMixin_dispatch(req) ==
  IF ~is_authenticated(req.user) THEN RedirectToLogin(req)
  ELSE IF req.pk \notin DOMAIN posts THEN NotFound(req)
  ELSE IF PostsMixin_denies(req.user, req.pk)
    THEN Redirect(req, Location("post_detail", req.pk, ""))
  ELSE NoResponse

PostUpdateView(viewer, pk, method, form) ==
  LET req == [Request("post_update", method, viewer) EXCEPT !.pk = pk]
  IN  IF PostsMixin_dispatch(req) # NoResponse
        THEN /\ response' = PostsMixin_dispatch(req)
             /\ UNCHANGED <<now, db>>
      ELSE IF method = "GET"
        THEN /\ response' = Render(req)
             /\ UNCHANGED <<now, db>>
      ELSE /\ posts' = [posts EXCEPT ![pk] =
                         [author |-> @.author, is_published |-> form.is_published,
                          pub_date |-> form.pub_date, category |-> form.category]]
           /\ response' = Redirect(req, Location("post_detail", pk, ""))
           /\ UNCHANGED <<now, users, categories, comments, nextPostId, nextCommentId>>

PostDeleteView(viewer, pk, method) ==
  LET req == [Request("post_delete", method, viewer) EXCEPT !.pk = pk]
  IN  IF PostsMixin_dispatch(req) # NoResponse
        THEN /\ response' = PostsMixin_dispatch(req)
             /\ UNCHANGED <<now, db>>
      ELSE IF method = "GET"
        THEN /\ response' = Render(req)
             /\ UNCHANGED <<now, db>>
      ELSE /\ posts' = [p \in DOMAIN posts \ {pk} |-> posts[p]]
           /\ comments' = [c \in {d \in DOMAIN comments : comments[d].post # pk}
                             |-> comments[c]]
           /\ response' = Redirect(req, Location("index", 0, ""))
           /\ UNCHANGED <<now, users, categories, nextPostId, nextCommentId>>

----------------------------------------------------------------------------
(* The comment views *)

\* CommentForm.is_valid: the text is required
CommentForm_is_valid(text) == text # ""

CommentCreateView_instance_by_post_author(viewer, post_id, text) ==
  [post |-> post_id, author |-> posts[post_id].author, text |-> text]

\* CommentCreateView.form_valid: the comment that is saved
CommentCreateView_instance(viewer, post_id, text) ==
  [post |-> post_id, author |-> viewer, text |-> text]

CommentCreateView(viewer, post_id, method, text) ==
  LET req == [Request("comment_create", method, viewer)
                EXCEPT !.pk = post_id, !.data = text]
  IN  IF ~is_authenticated(viewer)
        THEN /\ response' = RedirectToLogin(req)
             /\ UNCHANGED <<now, db>>
      ELSE IF method = "GET" \/ ~CommentForm_is_valid(text)
        THEN /\ response' = Render(req)
             /\ UNCHANGED <<now, db>>
      ELSE IF post_id \notin DOMAIN posts
        THEN /\ response' = NotFound(req)
             /\ UNCHANGED <<now, db>>
      ELSE /\ comments' = comments @@
                (nextCommentId :> CommentCreateView_instance(viewer, post_id, text))
           /\ nextCommentId' = nextCommentId + 1
           /\ response' = Redirect([req EXCEPT !.comment_pk = nextCommentId],
                                   Location("post_detail", post_id, ""))
           /\ UNCHANGED <<now, users, categories, posts, nextPostId>>

\* CommentMixin.dispatch: post.author != request.user, "post" being the comment
CommentMixin_denies(user, comment_id) == comments[comment_id].author # user

\* CommentMixin.dispatch: redirect('blog:post_detail', pk=post.pk), "post"
\* being the comment get_object returned
CommentMixin_redirect_pk(comment_id) == comment_id

\* LoginRequiredMixin.dispatch, then CommentMixin.dispatch
CommentMixin_dispatch(req) ==
  IF ~is_authenticated(req.user) THEN RedirectToLogin(req)
  ELSE IF req.comment_pk \notin DOMAIN comments THEN NotFound(req)
  ELSE IF CommentMixin_denies(req.user, req.comment_pk)
    THEN Redirect(req, Location("post_detail", CommentMixin_redirect_pk(req.comment_pk), ""))
  ELSE NoResponse

CommentUpdateView(viewer, post_id, comment_id, method, text) ==
  LET req == [Request("comment_update", method, viewer)
                EXCEPT !.pk = post_id, !.comment_pk = comment_id, !.data = text]
  IN  IF CommentMixin_dispatch(req) # NoResponse
        THEN /\ response' = CommentMixin_dispatch(req)
             /\ UNCHANGED <<now, db>>
      ELSE IF method = "GET" \/ ~CommentForm_is_valid(text)
        THEN /\ response' = Render(req)
             /\ UNCHANGED <<now, db>>
      ELSE /\ comments' = [comments EXCEPT ![comment_id].text = text]
           /\ response' = Redirect(req, Location("post_detail", post_id, ""))
           /\ UNCHANGED <<now, users, categories, posts, nextPostId, nextCommentId>>

CommentDeleteView(viewer, post_id, comment_id, method) ==
  LET req == [Request("comment_delete", method, viewer)
                EXCEPT !.pk = post_id, !.comment_pk = comment_id]
  IN  IF CommentMixin_dispatch(req) # NoResponse
        THEN /\ response' = CommentMixin_dispatch(req)
             /\ UNCHANGED <<now, db>>
      ELSE IF method = "GET"
        THEN /\ response' = Render(req)
             /\ UNCHANGED <<now, db>>
      ELSE /\ comments' = [c \in DOMAIN comments \ {comment_id} |-> comments[c]]
           /\ response' = Redirect(req, Location("post_detail", post_id, ""))
           /\ UNCHANGED <<now, users, categories, posts, nextPostId, nextCommentId>>

----------------------------------------------------------------------------
(* The profile update *)

ProfileUpdateView_get_object_by_slug(viewer, username) ==
  IF user_by_username(username) = {} THEN viewer
  ELSE CHOOSE u \in user_by_username(username) : TRUE

\* ProfileUpdateView.get_object: the requesting user, whatever the URL names
ProfileUpdateView_get_object(viewer, username) == viewer

\* UserForm.is_valid: User.username is unique
UserForm_is_valid(object, form) ==
  \A u \in DOMAIN users \ {object} : users[u].username # form.username

ProfileUpdateView(viewer, username, method, form) ==
  LET req == [Request("profile_update", method, viewer) EXCEPT !.name = username]
      object == ProfileUpdateView_get_object(viewer, username)
  IN  IF ~is_authenticated(viewer)
        THEN /\ response' = RedirectToLogin(req)
             /\ UNCHANGED <<now, db>>
      ELSE IF method = "GET" \/ ~UserForm_is_valid(object, form)
        THEN /\ response' = Render(req)
             /\ UNCHANGED <<now, db>>
      ELSE /\ users' = [users EXCEPT ![object] = form]
           /\ response' = Redirect(req, Location("profile", 0, users'[viewer].username))
           /\ UNCHANGED <<now, categories, posts, comments, nextPostId, nextCommentId>>

----------------------------------------------------------------------------
(* The clock *)

Tick ==
  /\ now < MaxTime
  /\ now' = now + 1
  /\ UNCHANGED <<db, response>>

----------------------------------------------------------------------------
(* Databases a specification starts from *)

\* tables of at most n rows drawn from rows, keyed 1 .. n (a deleted row
\* leaves a hole in the keys)
Tables(n, rows) == UNION {[ids -> rows] : ids \in SUBSET (1 .. n)}

\* rows of posts every listing shows: published, dated, in the published category
ShownPostRows == [author : UserIds, is_published : {TRUE}, pub_date : Times,
                  category : {"c1"}]

\* rows of posts that have a category
CategorisedPostRows == [author : UserIds, is_published : BOOLEAN, pub_date : Times,
                        category : Categories]

\* rows of comments by one author on the posts of the database
CountedCommentRows == [post : DOMAIN posts, author : {"u1"}, text : {"hi"}]

\* rows of comments on the posts of the database
CommentRows == [post : DOMAIN posts, author : UserIds, text : {"hi"}]

\* user tables: every user has a username of his own
UserTables == {t \in [UserIds -> UserFormData] :
                 \A u, w \in UserIds : u # w => t[u].username # t[w].username}

InitWith(postTables) ==
  /\ now = 0
  /\ users = InitialUsers
  /\ categories = CategoryTable
  /\ posts \in postTables
  /\ nextPostId = Max(DOMAIN posts) + 1
  /\ response = NoResponse

NoComments ==
  /\ comments = <<>>
  /\ nextCommentId = 1

SomeComments ==
  /\ comments \in Tables(MaxComments, CommentRows)
  /\ nextCommentId = Max(DOMAIN comments) + 1

\* no request has been served yet
Idle == response = NoResponse

----------------------------------------------------------------------------
(* Specifications *)

\* the post views: detail, create, update, delete
Init == InitWith(Tables(MaxPosts, PostRows)) /\ NoComments

Next ==
  \/ Idle /\ Tick
  \/ Idle /\ \E v \in Viewers, pk \in 1 .. MaxPosts : PostDetailView(v, pk)
  \/ Idle /\ \E v \in Viewers, m \in Methods, f \in PostFormData : PostCreateView(v, m, f)
  \/ Idle /\ \E v \in Viewers, pk \in 1 .. MaxPosts, m \in Methods, f \in PostFormData :
               PostUpdateView(v, pk, m, f)
  \/ Idle /\ \E v \in Viewers, pk \in 1 .. MaxPosts, m \in Methods : PostDeleteView(v, pk, m)

Spec == Init /\ [][Next]_vars

\* comment creation
InitCommentCreate == InitWith(Tables(MaxPosts, PostRows)) /\ NoComments

NextCommentCreate ==
  \/ Idle /\ Tick
  \/ Idle /\ \E v \in Viewers, pk \in 1 .. MaxPosts, m \in Methods, t \in Texts :
               CommentCreateView(v, pk, m, t)

SpecCommentCreate == InitCommentCreate /\ [][NextCommentCreate]_vars

\* comment update and delete, and the delete of a post with comments
InitCommentEdit == InitWith(Tables(MaxPosts, PostRows)) /\ SomeComments

NextCommentEdit ==
  \/ Idle /\ Tick
  \/ Idle /\ \E v \in Viewers, pk \in 1 .. MaxPosts, c \in 1 .. MaxComments,
                m \in Methods, t \in Texts : CommentUpdateView(v, pk, c, m, t)
  \/ Idle /\ \E v \in Viewers, pk \in 1 .. MaxPosts, c \in 1 .. MaxComments,
                m \in Methods : CommentDeleteView(v, pk, c, m)
  \/ Idle /\ \E v \in Viewers, pk \in 1 .. MaxPosts, m \in Methods : PostDeleteView(v, pk, m)

SpecCommentEdit == InitCommentEdit /\ [][NextCommentEdit]_vars

\* the index and category listings, first page
InitList == InitWith(Tables(MaxListed, PostRows)) /\ NoComments

NextList ==
  \/ Idle /\ Tick
  \/ Idle /\ \E v \in Viewers : PostListView(v, 1)
  \/ Idle /\ \E v \in Viewers, s \in Slugs : CategoryPostListView(v, s, 1)

SpecList == InitList /\ [][NextList]_vars

\* the profile page, first page; the posts have a category and the comments
\* differ by the post they are on
InitProfile ==
  /\ InitWith(Tables(MaxListed, CategorisedPostRows))
  /\ comments \in Tables(MaxCounted, CountedCommentRows)
  /\ nextCommentId = Max(DOMAIN comments) + 1

NextProfile ==
  \/ Idle /\ Tick
  \/ Idle /\ \E v \in Viewers, n \in Usernames : ProfileView(v, n, 1)

SpecProfile == InitProfile /\ [][NextProfile]_vars

\* the pages of the three listings
InitPage == InitWith(Tables(MaxPaged, ShownPostRows)) /\ NoComments

NextPage ==
  \/ Idle /\ Tick
  \/ Idle /\ \E v \in Viewers, k \in Pages : PostListView(v, k)
  \/ Idle /\ \E v \in Viewers, s \in Slugs, k \in Pages : CategoryPostListView(v, s, k)
  \/ Idle /\ \E v \in Viewers, n \in Usernames, k \in Pages : ProfileView(v, n, k)

SpecPage == InitPage /\ [][NextPage]_vars

\* the profile update
InitUser ==
  /\ now = 0
  /\ users \in UserTables
  /\ categories = CategoryTable
  /\ posts = <<>>
  /\ nextPostId = 1
  /\ NoComments
  /\ response = NoResponse

NextUser ==
  \/ Idle /\ Tick
  \/ Idle /\ \E v \in Viewers, n \in Usernames, m \in Methods, f \in UserFormData :
               ProfileUpdateView(v, n, m, f)

SpecUser == InitUser /\ [][NextUser]_vars

----------------------------------------------------------------------------
(* Properties *)

\* the spec's visibility rule for a viewer who is not the author
PubliclyVisible(p) ==
  /\ posts[p].is_published
  /\ posts[p].pub_date <= now
  /\ posts[p].category \in DOMAIN categories
  /\ categories[posts[p].category].is_published

\* the post is in the queryset of the response
Listed(p) == \E i \in DOMAIN response.object_list : response.object_list[i] = p

NoDuplicates(ol) == \A i, j \in DOMAIN ol : i # j => ol[i] # ol[j]

DescendingPubDate(ol) ==
  \A i, j \in DOMAIN ol : i < j => posts[ol[i]].pub_date >= posts[ol[j]].pub_date

\* C1 as stated: the index lists a post iff it is published, dated in the past
\* and in a published category, or the requester is its author.
C1_IndexShowsAuthorsOwnHiddenPosts ==
  response.view = "index" =>
    \A p \in DOMAIN posts :
      Listed(p) <=> (PubliclyVisible(p) \/ posts[p].author = response.user)

\* C1 as amended: for every requester, the author included, the index lists a
\* post iff it is published, its pub_date is not after now and its category
\* is published.
C1_IndexListsExactlyThePublicPosts ==
  response.view = "index" =>
    /\ response.status = 200
    /\ NoDuplicates(response.object_list)
    /\ \A p \in DOMAIN posts : Listed(p) <=> PubliclyVisible(p)

C1_AuthorRequestsIndexWithHiddenPost ==
  /\ response.view = "index"
  /\ \E p \in DOMAIN posts :
       posts[p].author = response.user /\ ~PubliclyVisible(p) /\ ~Listed(p)
  /\ \E q \in DOMAIN posts : Listed(q)

\* C2: an update or delete request for a post by an authenticated user who is
\* not its author, GET or POST, is answered with a redirect to that post's
\* detail page and changes no post and no comment.
C2_NonAuthorPostEditIsRedirected ==
  [][(/\ response'.view \in {"post_update", "post_delete"}
      /\ response'.user \in UserIds
      /\ response'.pk \in DOMAIN posts
      /\ posts[response'.pk].author # response'.user)
     => (/\ response'.status = 302
         /\ response'.location.name = "post_detail"
         /\ response'.location.pk = response'.pk
         /\ posts' = posts
         /\ comments' = comments)]_vars

C2_NonAuthorPostedAnUpdate ==
  /\ response.view = "post_update"
  /\ response.method = "POST"
  /\ response.user \in UserIds
  /\ response.pk \in DOMAIN posts
  /\ posts[response.pk].author # response.user
  /\ response.status = 302

\* C3 as stated: an update or delete request for a comment by an authenticated
\* user who is not its author is answered with a redirect to the detail page
\* of the post the comment belongs to, and changes no comment.
C3_NonAuthorCommentEditRedirectsToItsPost ==
  [][(/\ response'.view \in {"comment_update", "comment_delete"}
      /\ response'.user \in UserIds
      /\ response'.comment_pk \in DOMAIN comments
      /\ comments[response'.comment_pk].author # response'.user)
     => (/\ response'.status = 302
         /\ response'.location.name = "post_detail"
         /\ response'.location.pk = comments[response'.comment_pk].post
         /\ comments' = comments)]_vars

C5_NoCommentOnHiddenPost ==
  [][(/\ response'.view = "comment_create"
      /\ response'.user \in UserIds
      /\ response'.pk \in DOMAIN posts
      /\ posts[response'.pk].author # response'.user
      /\ ~PubliclyVisible(response'.pk))
     => comments' = comments]_vars

\* C6 as stated: the detail page is rendered iff the post exists and the
\* viewer is its author or the post is publicly visible; every other request
\* is answered not found, never with another error.
C6_DetailRendersOrNotFound ==
  response.view = "post_detail" =>
    /\ response.status \in {200, 404}
    /\ response.status = 200 <=>
         /\ response.pk \in DOMAIN posts
         /\ \/ posts[response.pk].author = response.user
            \/ PubliclyVisible(response.pk)

\* C7: a category listing for an unpublished category or an unknown slug is
\* answered not found; for a published category it lists, for every viewer,
\* exactly the posts of that category that are published and dated not after
\* now, by descending pub_date.
C7_CategoryListing ==
  response.view = "category" =>
    IF response.name \in DOMAIN categories /\ categories[response.name].is_published
      THEN /\ response.status = 200
           /\ NoDuplicates(response.object_list)
           /\ DescendingPubDate(response.object_list)
           /\ \A p \in DOMAIN posts :
                Listed(p) <=> /\ posts[p].category = response.name
                              /\ posts[p].is_published
                              /\ posts[p].pub_date <= now
      ELSE /\ response.status = 404
           /\ response.object_list = <<>>

C7_CategoryListsTwoPostsNewestFirst ==
  /\ response.view = "category"
  /\ response.status = 200
  /\ Len(response.object_list) = 2
  /\ posts[response.object_list[1]].pub_date > posts[response.object_list[2]].pub_date

\* the listing a request names exists: the category is published, the user known
ListingExists ==
  CASE response.view = "index" -> TRUE
    [] response.view = "category" ->
         response.name \in DOMAIN categories /\ categories[response.name].is_published
    [] response.view = "profile" ->
         \E u \in DOMAIN users : users[u].username = response.name
    [] OTHER -> FALSE

\* the posts of the listing a request names
ListingPosts ==
  CASE response.view = "index" -> {p \in DOMAIN posts : PubliclyVisible(p)}
    [] response.view = "category" ->
         {p \in DOMAIN posts : /\ posts[p].category = response.name
                               /\ posts[p].is_published
                               /\ posts[p].pub_date <= now}
    [] response.view = "profile" ->
         {p \in DOMAIN posts :
            /\ users[posts[p].author].username = response.name
            /\ (posts[p].author = response.user \/ PubliclyVisible(p))}
    [] OTHER -> {}

\* the pages of the listing, at PAGINATION posts a page
ListingPages ==
  IF ListingPosts = {} THEN 1
  ELSE (Cardinality(ListingPosts) + PAGINATION - 1) \div PAGINATION

\* the response shows page k of its queryset: PAGINATION posts, or what is
\* left of the queryset on the last page
ShowsPage(k) ==
  /\ response.status = 200
  /\ response.number = k
  /\ Len(response.object_list) = Cardinality(ListingPosts)
  /\ Len(response.page_obj) =
       IF k * PAGINATION <= Len(response.object_list)
         THEN PAGINATION
         ELSE Len(response.object_list) - (k - 1) * PAGINATION
  /\ \A i \in DOMAIN response.page_obj :
       response.page_obj[i] = response.object_list[(k - 1) * PAGINATION + i]

\* C8 as stated: index, category and profile listings have pages of
\* PAGINATION posts, and a page number past the last page gives the last page.
C8_EveryListingClampsToLastPage ==
  ListingExists =>
    IF response.page <= ListingPages
      THEN ShowsPage(response.page)
      ELSE ShowsPage(ListingPages)

\* C8 as amended: the three listings have pages of PAGINATION posts; a page
\* number past the last page gives the last page on the profile page, and
\* not found on the index and category listings.
C8_ProfileClampsListViewsAnswerNotFound ==
  ListingExists =>
    IF response.page <= ListingPages
      THEN ShowsPage(response.page)
      ELSE IF response.view = "profile"
        THEN ShowsPage(ListingPages)
        ELSE response.status = 404

C8_ProfilePagePastTheLast ==
  /\ response.view = "profile"
  /\ ListingPages >= 2
  /\ response.page > ListingPages
  /\ response.status = 200
  /\ response.number = ListingPages
  /\ Len(response.page_obj) >= 1

\* C9: the profile page of user A lists, for viewer A, every post of A, and
\* for any other viewer, anonymous included, exactly the posts of A that are
\* publicly visible; by descending pub_date, each with the number of comments
\* on it.
C9_ProfileListing ==
  response.view = "profile" =>
    IF \E u \in DOMAIN users : users[u].username = response.name
      THEN /\ response.status = 200
           /\ NoDuplicates(response.object_list)
           /\ DescendingPubDate(response.object_list)
           /\ \A p \in DOMAIN posts :
                Listed(p) <=>
                  /\ users[posts[p].author].username = response.name
                  /\ (posts[p].author = response.user \/ PubliclyVisible(p))
           /\ DOMAIN response.comment_count = DOMAIN response.object_list
           /\ \A i \in DOMAIN response.object_list :
                response.comment_count[i] =
                  Cardinality({c \in DOMAIN comments :
                                 comments[c].post = response.object_list[i]})
      ELSE response.status = 404

C9_OwnerSeesHiddenPostAndCommentCount ==
  /\ response.view = "profile"
  /\ response.status = 200
  /\ response.user \in UserIds
  /\ users[response.user].username = response.name
  /\ Len(response.object_list) = 2
  /\ \E i \in DOMAIN response.object_list : ~PubliclyVisible(response.object_list[i])
  /\ \E i \in DOMAIN response.comment_count : response.comment_count[i] >= 1

\* C10: a profile update changes the record of the requesting user only,
\* whatever username the request names; an anonymous request changes no record.
C10_ProfileUpdateChangesOwnRecordOnly ==
  [][response'.view = "profile_update"
     => (/\ DOMAIN users' = DOMAIN users
         /\ \A u \in DOMAIN users : u # response'.user => users'[u] = users[u]
         /\ (response'.user = Anonymous => users' = users))]_vars

C10_UpdateUnderAnothersUsername ==
  /\ response.view = "profile_update"
  /\ response.status = 302
  /\ response.user \in UserIds
  /\ \E u \in DOMAIN users : u # response.user /\ users[u].username = response.name

====
